---- MODULE Spec2Model ----
(***************************************************************************)
(* Model of homework.py: the fitness-tracker calculation layer (Training   *)
(* and its three variants), the read_package factory, the InfoMessage      *)
(* formatter and the __main__ driver loop.                                 *)
(*                                                                         *)
(* Python numbers are modelled as exact rationals <<n, d>> (d > 0, lowest  *)
(* terms); binary floating-point rounding error is not modelled.           *)
(***************************************************************************)
EXTENDS Integers, Sequences, FiniteSets

(* ---------------------------------------------------------------------- *)
(* Exact rational arithmetic                                              *)
(* ---------------------------------------------------------------------- *)
Abs(n) == IF n < 0 THEN -n ELSE n

RECURSIVE GCD(_, _)
GCD(a, b) == IF b = 0 THEN a ELSE GCD(b, a % b)

(* Each operand is bound through a singleton set, so that it is evaluated *)
(* once however deeply the arithmetic is nested.                          *)
Norm(n0, d0) ==
    CHOOSE r \in {<<((IF d < 0 THEN -1 ELSE 1) * n) \div GCD(Abs(n), Abs(d)),
                    ((IF d < 0 THEN -1 ELSE 1) * d) \div GCD(Abs(n), Abs(d))>> :
                     n \in {n0}, d \in {d0}} : TRUE

R(n) == <<n, 1>>
Zero == R(0)

RAdd(x, y) ==
    CHOOSE r \in {Norm(a[1] * b[2] + b[1] * a[2], a[2] * b[2]) :
                     a \in {x}, b \in {y}} : TRUE

RSub(x, y) ==
    CHOOSE r \in {Norm(a[1] * b[2] - b[1] * a[2], a[2] * b[2]) :
                     a \in {x}, b \in {y}} : TRUE

RMul(x, y) ==
    CHOOSE r \in {Norm(a[1] * b[1], a[2] * b[2]) :
                     a \in {x}, b \in {y}} : TRUE

RDiv(x, y) ==
    CHOOSE r \in {Norm(a[1] * b[2], a[2] * b[1]) :
                     a \in {x}, b \in {y}} : TRUE

RLt(a, b) == a[1] * b[2] < b[1] * a[2]
RLe(a, b) == a[1] * b[2] <= b[1] * a[2]

(* Outcome of a Python call: a returned value or a raised exception.      *)
Return(v) == [exc |-> "none", val |-> v]
Raise(e) == [exc |-> e, val |-> Zero]

(* Division truncating toward zero (what int(a / b) would give).          *)
TruncDiv(a, b) ==
    IF b = Zero THEN Raise("ZeroDivisionError")
    ELSE LET q == RDiv(a, b)
         IN  Return(R(IF q[1] < 0 THEN -((-q[1]) \div q[2]) ELSE q[1] \div q[2]))

(* Python's  a // b  on numbers: the quotient rounded toward minus        *)
(* infinity; b = 0 raises ZeroDivisionError.                              *)
PyFloorDiv(a, b) ==
    IF b = Zero THEN Raise("ZeroDivisionError")
    ELSE LET q == RDiv(a, b) IN Return(R(q[1] \div q[2]))

(* Python's  a / b : b = 0 raises ZeroDivisionError.                      *)
PyTrueDiv(a, b) ==
    IF b = Zero THEN Raise("ZeroDivisionError") ELSE Return(RDiv(a, b))

(* ---------------------------------------------------------------------- *)
(* Class constants                                                        *)
(* ---------------------------------------------------------------------- *)
M_IN_KM == 1000
MIN_IN_H == 60
Training_LEN_STEP == <<13, 20>>
Swimming_LEN_STEP == <<69, 50>>
Running_CAL_1 == 18
Running_CAL_2 == 20
SportsWalking_CAL_1 == <<7, 200>>
SportsWalking_CAL_2 == <<29, 1000>>
Swimming_CAL_1 == <<11, 10>>
Swimming_CAL_2 == 2

(* self.LEN_STEP: the class attribute, Swimming overriding Training's.    *)
LEN_STEP(self) ==
    IF self.cls = "Swimming" THEN Swimming_LEN_STEP ELSE Training_LEN_STEP

(* ---------------------------------------------------------------------- *)
(* Constructors                                                           *)
(* ---------------------------------------------------------------------- *)
Training_init(cls, action, duration, weight) ==
    [cls |-> cls, action |-> action, duration |-> duration, weight |-> weight]

SportsWalking_init(action, duration, weight, height) ==
    [cls |-> "SportsWalking", action |-> action, duration |-> duration,
     weight |-> weight, height |-> height]

Swimming_init_swapped(action, duration, weight, length_pool, count_pool) ==
    [cls |-> "Swimming", action |-> action, duration |-> duration,
     weight |-> weight, length_pool |-> count_pool, count_pool |-> length_pool]

Swimming_init(action, duration, weight, length_pool, count_pool) ==
    [cls |-> "Swimming", action |-> action, duration |-> duration,
     weight |-> weight, length_pool |-> length_pool, count_pool |-> count_pool]

(* Number of positional parameters the class's __init__ takes after self. *)
Arity(cls) ==
    CASE cls = "Swimming" -> 5
      [] cls = "SportsWalking" -> 4
      [] OTHER -> 3

(* The call cls( *data ): Python binds the tuple positionally and raises  *)
(* TypeError when its length is not the constructor's parameter count.    *)
Construct_lenient(cls, data) ==
    IF Len(data) < Arity(cls) THEN Raise("TypeError")
    ELSE CASE cls = "Swimming" ->
                Return(Swimming_init(data[1], data[2], data[3], data[4], data[5]))
           [] cls = "SportsWalking" ->
                Return(SportsWalking_init(data[1], data[2], data[3], data[4]))
           [] OTHER ->
                Return(Training_init(cls, data[1], data[2], data[3]))

Construct(cls, data) ==
    IF Len(data) # Arity(cls) THEN Raise("TypeError")
    ELSE CASE cls = "Swimming" ->
                Return(Swimming_init(data[1], data[2], data[3], data[4], data[5]))
           [] cls = "SportsWalking" ->
                Return(SportsWalking_init(data[1], data[2], data[3], data[4]))
           [] OTHER ->
                Return(Training_init(cls, data[1], data[2], data[3]))

(* ---------------------------------------------------------------------- *)
(* Training and its variants: the metric computations                     *)
(* ---------------------------------------------------------------------- *)
get_distance_minus(self) ==
    Return(RSub(self.action, RDiv(LEN_STEP(self), R(M_IN_KM))))

get_distance(self) ==
    Return(RDiv(RMul(self.action, LEN_STEP(self)), R(M_IN_KM)))

Training_get_mean_speed_times(self) ==
    Return(RMul(get_distance(self).val, self.duration))

Training_get_mean_speed(self) ==
    PyTrueDiv(get_distance(self).val, self.duration)

Swimming_get_mean_speed_base(self) ==
    PyTrueDiv(get_distance(self).val, self.duration)

Swimming_get_mean_speed(self) ==
    PyTrueDiv(RDiv(RMul(self.length_pool, self.count_pool), R(M_IN_KM)),
              self.duration)

get_mean_speed(self) ==
    IF self.cls = "Swimming" THEN Swimming_get_mean_speed(self)
    ELSE Training_get_mean_speed(self)

Training_get_spent_calories(self) == Raise("NotImplementedError")

Running_get_spent_calories_floored(self) ==
    LET speed == get_mean_speed(self)
        c == RMul(RMul(RDiv(RMul(RSub(RMul(R(Running_CAL_1), speed.val),
                                       R(Running_CAL_2)),
                                  self.weight),
                             R(M_IN_KM)),
                        self.duration),
                  R(MIN_IN_H))
    IN  IF speed.exc # "none" THEN speed
        ELSE Return(IF RLt(c, Zero) THEN Zero ELSE c)

Running_get_spent_calories(self) ==
    LET speed == get_mean_speed(self)
    IN  IF speed.exc # "none" THEN speed
        ELSE Return(RMul(RMul(RDiv(RMul(RSub(RMul(R(Running_CAL_1), speed.val),
                                             R(Running_CAL_2)),
                                        self.weight),
                                   R(M_IN_KM)),
                              self.duration),
                         R(MIN_IN_H)))

SportsWalking_get_spent_calories(self) ==
    LET speed == get_mean_speed(self)
        quot == PyFloorDiv(RMul(speed.val, speed.val), self.height)
    IN  IF speed.exc # "none" THEN speed
        ELSE IF quot.exc # "none" THEN quot
        ELSE Return(RMul(RAdd(RMul(SportsWalking_CAL_1, self.weight),
                              RMul(RMul(quot.val, SportsWalking_CAL_2),
                                   self.weight)),
                         RMul(self.duration, R(MIN_IN_H))))

Swimming_get_spent_calories_no_duration(self) ==
    LET speed == get_mean_speed(self)
    IN  IF speed.exc # "none" THEN speed
        ELSE Return(RMul(RMul(RAdd(speed.val, Swimming_CAL_1),
                              R(Swimming_CAL_2)),
                         self.weight))

Swimming_get_spent_calories(self) ==
    LET speed == get_mean_speed(self)
    IN  IF speed.exc # "none" THEN speed
        ELSE Return(RMul(RMul(RMul(RAdd(speed.val, Swimming_CAL_1),
                                   R(Swimming_CAL_2)),
                              self.weight),
                         self.duration))

(* Method resolution: the subclass override, else Training's stub.        *)
get_spent_calories(self) ==
    CASE self.cls = "Running" -> Running_get_spent_calories(self)
      [] self.cls = "SportsWalking" -> SportsWalking_get_spent_calories(self)
      [] self.cls = "Swimming" -> Swimming_get_spent_calories(self)
      [] OTHER -> Training_get_spent_calories(self)

(* show_training_info: the arguments of InfoMessage(...) are evaluated    *)
(* left to right; the first exception raised propagates.                  *)
show_training_info(self) ==
    LET distance == get_distance(self)
        speed == get_mean_speed(self)
        calories == get_spent_calories(self)
    IN  IF speed.exc # "none" THEN [exc |-> speed.exc, val |-> <<>>]
        ELSE IF calories.exc # "none" THEN [exc |-> calories.exc, val |-> <<>>]
        ELSE [exc |-> "none",
              val |-> [training_type |-> self.cls,
                       duration |-> self.duration,
                       distance |-> distance.val,
                       speed |-> speed.val,
                       calories |-> calories.val]]

(* ---------------------------------------------------------------------- *)
(* InfoMessage.get_message                                                *)
(* ---------------------------------------------------------------------- *)
(* The format spec .3f : the sign, then the magnitude rounded to the      *)
(* nearest thousandth (ties to even), as integer part and three decimals. *)
Fmt3(r) ==
    LET n == Abs(r[1]) * 1000
        q == n \div r[2]
        rem == n % r[2]
        up == (2 * rem > r[2]) \/ (2 * rem = r[2] /\ q % 2 = 1)
        m == IF up THEN q + 1 ELSE q
    IN  [neg |-> r[1] < 0, whole |-> m \div 1000, frac |-> m % 1000]

(* SENTENCE.format(...): the template's text is fixed, so a message is    *)
(* determined by the five substituted fields.                             *)
get_message(self) ==
    [training_type |-> self.training_type,
     duration |-> Fmt3(self.duration),
     distance |-> Fmt3(self.distance),
     speed |-> Fmt3(self.speed),
     calories |-> Fmt3(self.calories)]

(* ---------------------------------------------------------------------- *)
(* read_package                                                           *)
(* ---------------------------------------------------------------------- *)
training_code_base ==
    [SWM |-> "Swimming", RUN |-> "Training", WLK |-> "SportsWalking"]

training_code ==
    [SWM |-> "Swimming", RUN |-> "Running", WLK |-> "SportsWalking"]

None == [cls |-> "None"]

(* dict.get with a default class instead of the subscript.                *)
read_package_default(workout_type, data) ==
    IF workout_type \notin DOMAIN training_code
    THEN Construct("Running", data)
    ELSE Construct(training_code[workout_type], data)

(* training_code[workout_type] raises KeyError for a key not in the dict, *)
(* before the constructor is called.                                      *)
read_package(workout_type, data) ==
    IF workout_type \notin DOMAIN training_code
    THEN [exc |-> "KeyError", val |-> None]
    ELSE LET made == Construct(training_code[workout_type], data)
         IN  IF made.exc # "none" THEN [exc |-> made.exc, val |-> None]
             ELSE made

(* ---------------------------------------------------------------------- *)
(* Inputs                                                                 *)
(* ---------------------------------------------------------------------- *)
MaxHalfHours == 2
MaxArgs == 6

ActionValues == {R(-1000), R(0), R(720), R(9000), R(15000)}
DurationValues == {Norm(k, 2) : k \in -1..MaxHalfHours}
WeightValues == {R(-75), R(0), R(75), R(80)}
FourthValues == {R(-10), R(0), R(10), R(25), R(50), R(180)}
FifthValues == {R(-1), R(0), R(40)}

ArgValues(k) ==
    CASE k = 1 -> ActionValues
      [] k = 2 -> DurationValues
      [] k = 3 -> WeightValues
      [] k = 4 -> FourthValues
      [] k = 5 -> FifthValues
      [] OTHER -> {Zero}

(* All argument tuples of length n, position k drawn from ArgValues(k).    *)
RECURSIVE TuplesOfLen(_)
TuplesOfLen(n) ==
    IF n = 0 THEN {<<>>}
    ELSE {Append(d, v) : d \in TuplesOfLen(n - 1), v \in ArgValues(n)}

DataTuples == UNION {TuplesOfLen(n) : n \in 2..MaxArgs}

WorkoutTypes == {"SWM", "RUN", "WLK", "CYC"}

(* The sample list of the __main__ block.                                 *)
PACKAGES ==
    << <<"SWM", <<R(720), R(1), R(80), R(25), R(40)>> >>,
       <<"RUN", <<R(15000), R(1), R(75)>> >>,
       <<"WLK", <<R(9000), R(1), R(75), R(180)>> >> >>

(* ---------------------------------------------------------------------- *)
(* The driver loop                                                        *)
(* ---------------------------------------------------------------------- *)
VARIABLES packages, i, pc, training, show, message, output, err

vars == <<packages, i, pc, training, show, message, output, err>>

NoShow == [training_type |-> "None"]
NoMessage == [training_type |-> "None"]

InitWith(lists) ==
    /\ packages \in lists
    /\ i = 1
    /\ pc = "read_package"
    /\ training = None
    /\ show = NoShow
    /\ message = NoMessage
    /\ output = <<>>
    /\ err = "none"

(* The sample list, and every list of one package over the input sets.    *)
SessionLists ==
    {PACKAGES} \cup {<< <<w, d>> >> : w \in WorkoutTypes, d \in DataTuples}

Init == InitWith(SessionLists)

(* Lists of up to MaxPackages packages drawn from the sample packages.    *)
MaxPackages == 3

RECURSIVE ListsOfLen(_)
ListsOfLen(n) ==
    IF n = 0 THEN {<<>>}
    ELSE {Append(l, PACKAGES[k]) : l \in ListsOfLen(n - 1),
                                   k \in 1..Len(PACKAGES)}

SampleLists == UNION {ListsOfLen(n) : n \in 1..MaxPackages}

DriverInit == InitWith(SampleLists)

(* training = read_package(workout_type, data)                            *)
ReadPackage ==
    /\ pc = "read_package"
    /\ LET r == read_package(packages[i][1], packages[i][2])
       IN  IF r.exc # "none"
           THEN /\ pc' = "raised"
                /\ err' = r.exc
                /\ UNCHANGED training
           ELSE /\ pc' = "show_training_info"
                /\ training' = r.val
                /\ UNCHANGED err
    /\ UNCHANGED <<packages, i, show, message, output>>

(* main: show = training.show_training_info()                             *)
ShowTrainingInfo ==
    /\ pc = "show_training_info"
    /\ LET r == show_training_info(training)
       IN  IF r.exc # "none"
           THEN /\ pc' = "raised"
                /\ err' = r.exc
                /\ UNCHANGED show
           ELSE /\ pc' = "get_message"
                /\ show' = r.val
                /\ UNCHANGED err
    /\ UNCHANGED <<packages, i, training, message, output>>

(* main: the argument of print, show.get_message()                        *)
GetMessage ==
    /\ pc = "get_message"
    /\ message' = get_message(show)
    /\ pc' = "print"
    /\ UNCHANGED <<packages, i, training, show, output, err>>

(* main: print(...), then the for loop takes the next package or ends.    *)
PrintMessage ==
    /\ pc = "print"
    /\ output' = Append(output, message)
    /\ i' = i + 1
    /\ pc' = IF i + 1 > Len(packages) THEN "done" ELSE "read_package"
    /\ UNCHANGED <<packages, training, show, message, err>>

Next == ReadPackage \/ ShowTrainingInfo \/ GetMessage \/ PrintMessage

Spec == Init /\ [][Next]_vars

(* The program is one sequential thread: an enabled step is taken.        *)
DriverSpec == DriverInit /\ [][Next]_vars /\ WF_vars(Next)

TypeOK ==
    /\ pc \in {"read_package", "show_training_info", "get_message", "print",
               "done", "raised"}
    /\ i \in 1..(Len(packages) + 1)
    /\ err \in {"none", "KeyError", "TypeError", "ZeroDivisionError",
                "NotImplementedError"}
    /\ (pc = "raised") = (err # "none")
    /\ Len(output) = i - 1

(* ====================================================================== *)
(* Properties                                                             *)
(* ====================================================================== *)
(* show holds the InfoMessage computed from training.                     *)
Shown == pc \in {"get_message", "print"}

IsPos(r) == RLt(Zero, r)
IsNeg(r) == RLt(r, Zero)
NonNeg(r) == RLe(Zero, r)

CurType == packages[i][1]
CurData == packages[i][2]
KnownTypes == {"SWM", "RUN", "WLK"}
ExpectedArity(w) == CASE w = "RUN" -> 3 [] w = "WLK" -> 4 [] w = "SWM" -> 5

(* ----------------------------- C1 -------------------------------------- *)
(* Swimming sessions that differ from t in duration and pool geometry     *)
(* only, with a positive duration and the same mean speed as t.           *)
SameSpeedPeers(t) ==
    {u \in {[t EXCEPT !.duration = d, !.length_pool = l, !.count_pool = c] :
              d \in DurationValues, l \in FourthValues, c \in FifthValues} :
        /\ IsPos(u.duration)
        /\ u.duration # t.duration
        /\ RDiv(RMul(u.length_pool, u.count_pool), u.duration)
             = RDiv(RMul(t.length_pool, t.count_pool), t.duration)}

SwimmingShown == Shown /\ training.cls = "Swimming" /\ IsPos(training.duration)

C2_UnknownWorkoutKind ==
    [][(pc = "read_package" /\ CurType \notin KnownTypes) =>
          (pc' = "raised" /\ err' = "UnknownWorkoutKind"
             /\ training' = training)]_vars

(* C2 amended: read_package with a code outside SWM, RUN, WLK fails with  *)
(* the dict lookup's KeyError, whatever the argument list, and constructs *)
(* no object.                                                             *)
C2_KeyError ==
    [][(pc = "read_package" /\ CurType \notin KnownTypes) =>
          (pc' = "raised" /\ err' = "KeyError" /\ training' = training)]_vars

C2_Witness ==
    /\ pc = "raised"
    /\ CurType = "CYC"
    /\ Len(CurData) = 3
    /\ err = "KeyError"
    /\ training = None

(* ----------------------------- C3 -------------------------------------- *)
BadArity ==
    /\ pc = "read_package"
    /\ CurType \in KnownTypes
    /\ Len(CurData) # ExpectedArity(CurType)

(* C3 as stated: a valid code with an argument list of the wrong length   *)
(* fails with the dedicated MalformedArguments error and constructs no    *)
(* object.                                                                *)
C3_MalformedArguments ==
    [][BadArity =>
          (pc' = "raised" /\ err' = "MalformedArguments"
             /\ training' = training)]_vars

(* C3 amended: a valid code with an argument list of the wrong length,    *)
(* too short or too long, fails with the TypeError the constructor call   *)
(* raises and constructs no object.                                       *)
C3_TypeError ==
    [][BadArity =>
          (pc' = "raised" /\ err' = "TypeError" /\ training' = training)]_vars

C3_Witness ==
    /\ pc = "raised"
    /\ err = "TypeError"
    /\ training = None
    /\ CurType = "RUN"
    /\ Len(CurData) = 2

(* ----------------------------- C4 -------------------------------------- *)
GoodArity ==
    /\ pc = "read_package"
    /\ CurType \in KnownTypes
    /\ Len(CurData) = ExpectedArity(CurType)

ExpectedObject(w, d) ==
    CASE w = "RUN" ->
           [cls |-> "Running", action |-> d[1], duration |-> d[2],
            weight |-> d[3]]
      [] w = "WLK" ->
           [cls |-> "SportsWalking", action |-> d[1], duration |-> d[2],
            weight |-> d[3], height |-> d[4]]
      [] w = "SWM" ->
           [cls |-> "Swimming", action |-> d[1], duration |-> d[2],
            weight |-> d[3], length_pool |-> d[4], count_pool |-> d[5]]

(* C4: for a known code and an argument list of the matching arity,       *)
(* read_package returns the matching variant whose fields are the         *)
(* positional arguments in order, none dropped, reordered or misassigned. *)
C4_FactoryBindsPositionally ==
    [][GoodArity =>
          (pc' = "show_training_info" /\ err' = "none"
             /\ training' = ExpectedObject(CurType, CurData))]_vars

C4_Witness ==
    /\ pc = "show_training_info"
    /\ CurType = "SWM"
    /\ training.cls = "Swimming"
    /\ training.length_pool = R(25)
    /\ training.count_pool = R(40)
    /\ training.length_pool # training.count_pool

(* ----------------------------- C5 -------------------------------------- *)
(* C5 as stated: the reported distance is never negative, for Running and *)
(* Walking whenever action >= 0 and for Swimming whenever length_pool >=  *)
(* 0 and count_pool >= 0, whatever the Swimming session's action count.   *)
C5_DistanceNonNegByPool ==
    Shown =>
        /\ (training.cls \in {"Running", "SportsWalking"}
              /\ NonNeg(training.action)) => NonNeg(show.distance)
        /\ (training.cls = "Swimming" /\ NonNeg(training.length_pool)
              /\ NonNeg(training.count_pool)) => NonNeg(show.distance)

(* C5 amended: the reported distance is never negative whenever           *)
(* action >= 0, for Running, Walking and Swimming alike; the pool         *)
(* geometry plays no part in it.                                          *)
C5_DistanceNonNegByAction ==
    (Shown /\ NonNeg(training.action)) => NonNeg(show.distance)

C5_Witness ==
    /\ Shown
    /\ training.cls = "Swimming"
    /\ IsNeg(training.length_pool)
    /\ training.action = R(720)
    /\ show.distance = <<621, 625>>

(* ----------------------------- C6 -------------------------------------- *)
(* C6: a Swimming session's mean speed is                                 *)
(* length_pool * count_pool / 1000 / duration and does not depend on the  *)
(* action count: sessions differing only in action have the same speed    *)
(* and calories, although their distances differ.                         *)
C6_SwimmingSpeedIgnoresAction ==
    SwimmingShown =>
        /\ show.speed
             = RDiv(RDiv(RMul(training.length_pool, training.count_pool),
                         R(1000)),
                    training.duration)
        /\ \A a \in ActionValues \ {training.action} :
               LET other == show_training_info([training EXCEPT !.action = a])
               IN  /\ other.exc = "none"
                   /\ other.val.speed = show.speed
                   /\ other.val.calories = show.calories
                   /\ other.val.distance # show.distance

C6_Witness ==
    /\ SwimmingShown
    /\ training.action = R(9000)
    /\ training.length_pool = R(25)
    /\ training.count_pool = R(40)
    /\ training.duration = <<1, 2>>
    /\ show.speed = R(2)

(* ----------------------------- C7 -------------------------------------- *)
(* C7: for Running and Walking with duration > 0 the speed in the summary *)
(* is the distance in the same summary divided by the duration, and the   *)
(* distance is action * 0.65 / 1000.                                      *)
C7_SpeedIsDistanceOverDuration ==
    (Shown /\ training.cls \in {"Running", "SportsWalking"}
       /\ IsPos(training.duration)) =>
        /\ show.speed = RDiv(show.distance, training.duration)
        /\ RMul(show.speed, show.duration) = show.distance
        /\ show.distance = RDiv(RMul(training.action, <<65, 100>>), R(1000))

C7_Witness ==
    /\ Shown
    /\ training.cls = "SportsWalking"
    /\ training.duration = <<1, 2>>
    /\ training.action = R(9000)
    /\ show.distance = <<117, 20>>
    /\ show.speed = <<117, 10>>

(* ----------------------------- C8 -------------------------------------- *)
WalkingShown == Shown /\ training.cls = "SportsWalking"

(* meanSpeed^2 / height of the session shown, before flooring.            *)
WalkingQuotient == RDiv(RMul(show.speed, show.speed), training.height)

(* The integers near the quotient, among which its floor lies.            *)
FloorCandidates ==
    LET m == (Abs(WalkingQuotient[1]) \div WalkingQuotient[2]) + 1
    IN  (-m)..m

WalkingCalories(k) ==
    RMul(RAdd(RMul(<<35, 1000>>, training.weight),
              RMul(RMul(R(k), <<29, 1000>>), training.weight)),
         RMul(training.duration, R(60)))

(* C8: a Walking session's calories are                                   *)
(* (0.035*weight + floor(meanSpeed^2 / height) * 0.029 * weight)          *)
(* * duration * 60 with the quotient floored toward minus infinity; when  *)
(* meanSpeed^2 < height and height > 0 they are 0.035*weight*duration*60, *)
(* and 157.5 for action 9000, duration 1, weight 75, height 180.          *)
C8_WalkingCaloriesFloored ==
    WalkingShown =>
        /\ \E k \in FloorCandidates :
               /\ RLe(R(k), WalkingQuotient)
               /\ RLt(WalkingQuotient, R(k + 1))
               /\ show.calories = WalkingCalories(k)
        /\ (IsPos(training.height)
              /\ RLt(RMul(show.speed, show.speed), training.height)) =>
               show.calories
                 = RMul(RMul(<<35, 1000>>, training.weight),
                        RMul(training.duration, R(60)))
        /\ (training.action = R(9000) /\ training.duration = R(1)
              /\ training.weight = R(75) /\ training.height = R(180)) =>
               show.calories = <<315, 2>>

(* A negative, fractional quotient: floor and truncation differ.          *)
C8_Witness ==
    /\ WalkingShown
    /\ training.action = R(9000)
    /\ training.duration = R(1)
    /\ training.weight = R(75)
    /\ training.height = R(-10)
    /\ WalkingQuotient = <<-13689, 4000>>
    /\ show.calories = <<-729, 2>>

(* ----------------------------- C9 -------------------------------------- *)
RunningShown == Shown /\ training.cls = "Running"

RunningFormula ==
    RMul(RMul(RDiv(RMul(RSub(RMul(R(18), show.speed), R(20)),
                        training.weight),
                   R(1000)),
              training.duration),
         R(60))

SlowRun ==
    /\ IsPos(training.weight)
    /\ IsPos(training.duration)
    /\ RLt(show.speed, <<20, 18>>)

(* C9 as stated: a Running session's calories are                         *)
(* (18*meanSpeed - 20) * weight / 1000 * duration * 60, not floored at    *)
(* zero: negative exactly when weight > 0, duration > 0 and meanSpeed <   *)
(* 20/18; 699.75 for action 15000, duration 1, weight 75.                 *)
C9_NegativeExactlyWhenSlow ==
    RunningShown =>
        /\ show.calories = RunningFormula
        /\ IsNeg(show.calories) <=> SlowRun
        /\ (training.action = R(15000) /\ training.duration = R(1)
              /\ training.weight = R(75)) => show.calories = <<2799, 4>>

(* C9 amended: the same formula, not floored at zero; for action >= 0     *)
(* and weight >= 0 it is negative exactly when weight > 0, duration > 0   *)
(* and meanSpeed < 20/18 (a negative weight, or a negative duration with  *)
(* a negative action count, makes a fast run negative too); 699.75 for    *)
(* action 15000, duration 1, weight 75.                                   *)
C9_NegativeWhenSlowValidInput ==
    RunningShown =>
        /\ show.calories = RunningFormula
        /\ (NonNeg(training.action) /\ NonNeg(training.weight)) =>
               (IsNeg(show.calories) <=> SlowRun)
        /\ (training.action = R(15000) /\ training.duration = R(1)
              /\ training.weight = R(75)) => show.calories = <<2799, 4>>

C9_Witness ==
    /\ RunningShown
    /\ training.action = R(720)
    /\ training.duration = R(1)
    /\ training.weight = R(75)
    /\ SlowRun
    /\ show.calories = <<-13023, 250>>

(* ----------------------------- C10 ------------------------------------- *)
Dec(w, f) == [neg |-> FALSE, whole |-> w, frac |-> f]

(* The three lines the sample list prints.                                *)
ExpectedOutput ==
    << [training_type |-> "Swimming", duration |-> Dec(1, 0),
        distance |-> Dec(0, 994), speed |-> Dec(1, 0),
        calories |-> Dec(336, 0)],
       [training_type |-> "Running", duration |-> Dec(1, 0),
        distance |-> Dec(9, 750), speed |-> Dec(9, 750),
        calories |-> Dec(699, 750)],
       [training_type |-> "SportsWalking", duration |-> Dec(1, 0),
        distance |-> Dec(5, 850), speed |-> Dec(5, 850),
        calories |-> Dec(157, 500)] >>

(* The run of the __main__ block: SWM, then RUN, then WLK.                *)
SampleRun ==
    /\ Len(packages) = 3
    /\ packages[1] = <<"SWM", <<R(720), R(1), R(80), R(25), R(40)>> >>
    /\ packages[2] = <<"RUN", <<R(15000), R(1), R(75)>> >>
    /\ packages[3] = <<"WLK", <<R(9000), R(1), R(75), R(180)>> >>

(* C10: the driver takes its sample list (SWM, RUN, WLK) in list order,   *)
(* each session once through read_package, show_training_info,            *)
(* get_message and print, emits one line per session, never raises        *)
(* (NotImplementedError included), and terminates normally.               *)
C10_DriverPrintsSamplesInOrder ==
    /\ [](SampleRun =>
            /\ err = "none"
            /\ pc # "raised"
            /\ Len(output) = i - 1
            /\ output = SubSeq(ExpectedOutput, 1, i - 1)
            /\ (pc # "read_package" /\ pc # "done") =>
                   training = ExpectedObject(packages[i][1], packages[i][2]))
    /\ (SampleRun /\ pc = "read_package" /\ i = 1)
          ~> (pc = "done" /\ i = 4 /\ output = ExpectedOutput /\ err = "none")

C10_Witness ==
    /\ SampleRun
    /\ pc = "done"
    /\ Len(output) = 3
    /\ output[1].training_type = "Swimming"
    /\ output[3].training_type = "SportsWalking"
    /\ err = "none"
====
